---------------------------- MODULE Spec2Model ----------------------------
(***************************************************************************)
(* checksymlinks (src/main.go): one run of main().  The program parses its *)
(* flags, validates the root directory, changes into it and walks the tree *)
(* with filepath.Walk; the callback classifies every symbolic link with    *)
(* filepath.EvalSymlinks and removes links according to the two deletion   *)
(* flags, keeping four counters that are reported at the end.              *)
(*                                                                         *)
(* The file system is a finite tree of named slots below the root.  A path *)
(* is a sequence of components; a symbolic link stores a relative path.    *)
(***************************************************************************)
EXTENDS Integers, Sequences, FiniteSets, TLC

(* ------------------------------------------------------------------------ *)
(* Bounds of the model.                                                     *)
(* ------------------------------------------------------------------------ *)

\* Stands for the link budget of filepath.EvalSymlinks (255 in the Go
\* library): a resolution that walks more links than this fails.
MaxLinksWalked == 6

\* How many entries a concurrent process may remove during one run (SpecRace).
MaxExternal == 1

(* ------------------------------------------------------------------------ *)
(* Paths and the file system.                                               *)
(* ------------------------------------------------------------------------ *)

Root == <<>>

\* Names in the order sort.Strings gives them (filepath.Walk visits the names
\* of a directory in lexical order).
NameOrder == <<"a", "b", "c", "d">>

\* The entries a tree of the model may hold: ./a  ./b  ./d  ./d/c
Slots == {<<"a">>, <<"b">>, <<"d">>, <<"d", "c">>}

\* What a symbolic link may store (relative to the directory holding it).
\* "x" names nothing; ".." is the parent directory.
Targets == {<<"a">>, <<"b">>, <<"d">>, <<"d", "c">>, <<"a", "c">>,
            <<"..">>, <<"..", "a">>, <<"x">>}

Absent == [kind |-> "absent", target |-> <<>>]
File == [kind |-> "file", target |-> <<>>]
Dir == [kind |-> "dir", target |-> <<>>]
Link(t) == [kind |-> "link", target |-> t]

Front(s) == SubSeq(s, 1, Len(s) - 1)
Last(s) == s[Len(s)]

\* A path made of ".." only: the root's ancestors, which are directories.
OnlyDotDot(p) == \A i \in 1..Len(p) : p[i] = ".."

\* The entry at a path that holds no symbolic link and no "." in its directory
\* part (what lstat sees once the kernel has resolved the directory part).
EntryAt(f, rp) ==
    IF OnlyDotDot(rp) THEN Dir
    ELSE IF rp \in DOMAIN f THEN f[rp]
    ELSE Absent

ResolveErr == [ok |-> FALSE, path |-> <<>>]

\* filepath.EvalSymlinks (walkSymlinks of the Go library): resolve `path`
\* component by component below `dest`, following every symbolic link, failing
\* on a missing component, on a non-directory in the middle of the path and on
\* more than MaxLinksWalked links.
RECURSIVE walkSymlinks(_, _, _, _)
walkSymlinks(f, dest, path, linksWalked) ==
    IF path = <<>> THEN [ok |-> TRUE, path |-> dest]
    ELSE LET c == Head(path)
             rest == Tail(path)
         IN  IF c = "." THEN walkSymlinks(f, dest, rest, linksWalked)
             ELSE IF c = ".." THEN
                 IF dest = <<>> \/ Last(dest) = ".."
                 THEN walkSymlinks(f, Append(dest, ".."), rest, linksWalked)
                 ELSE walkSymlinks(f, Front(dest), rest, linksWalked)
             ELSE LET d2 == Append(dest, c)
                      e == EntryAt(f, d2)
                  IN  IF e.kind = "absent" THEN ResolveErr
                      ELSE IF e.kind # "link" THEN
                          IF e.kind # "dir" /\ rest # <<>> THEN ResolveErr
                          ELSE walkSymlinks(f, d2, rest, linksWalked)
                      ELSE IF linksWalked + 1 > MaxLinksWalked THEN ResolveErr
                      ELSE walkSymlinks(f, dest, e.target \o rest, linksWalked + 1)

EvalSymlinks(f, p) == walkSymlinks(f, Root, p, 0)

\* The place of the entry a path names, its directory part resolved by the
\* kernel; ok is FALSE when the directory part does not lead to a directory.
Locate(f, p) ==
    IF p = Root THEN [ok |-> TRUE, path |-> Root]
    ELSE LET par == EvalSymlinks(f, Front(p))
         IN  IF par.ok /\ EntryAt(f, par.path).kind = "dir"
             THEN [ok |-> TRUE, path |-> Append(par.path, Last(p))]
             ELSE ResolveErr

\* os.Lstat: the entry itself, a final symbolic link not followed.
Lstat(f, p) ==
    LET at == Locate(f, p)
    IN  IF at.ok THEN EntryAt(f, at.path) ELSE Absent

\* readDirNames of filepath.Walk: the sorted names of a directory.
readDirNames(f, p) ==
    LET rp == EvalSymlinks(f, p)
    IN  IF rp.ok /\ EntryAt(f, rp.path).kind = "dir"
        THEN [ok |-> TRUE,
              names |-> SelectSeq(NameOrder,
                           LAMBDA n : EntryAt(f, Append(rp.path, n)).kind # "absent")]
        ELSE [ok |-> FALSE, names |-> <<>>]

Parent(p) == Front(p)

\* os.Remove of a non-directory: fails when the entry is gone or when its
\* directory is not writable (ro: the directories without write permission).
RemoveOk(f, p, ro) ==
    LET at == Locate(f, p)
    IN  /\ at.ok
        /\ at.path \in DOMAIN f
        /\ f[at.path].kind \notin {"absent", "dir"}
        /\ Parent(at.path) \notin ro

\* Mutant of Remove: the removal follows the link and deletes what it names.
Remove_FollowsLink(f, p, ro) ==
    LET r == EvalSymlinks(f, p)
    IN  IF r.ok /\ r.path \in DOMAIN f
        THEN [f EXCEPT ![r.path] = Absent]
        ELSE IF RemoveOk(f, p, ro)
             THEN [f EXCEPT ![Locate(f, p).path] = Absent]
             ELSE f

Remove(f, p, ro) ==
    IF RemoveOk(f, p, ro)
    THEN [f EXCEPT ![Locate(f, p).path] = Absent]
    ELSE f

(* ------------------------------------------------------------------------ *)
(* State.                                                                   *)
(* ------------------------------------------------------------------------ *)

VARIABLES
    fs,                 \* the tree below the root directory
    fs0,                \* the tree as it was when the program started
    readOnly,           \* directories in which os.Remove fails
    args,               \* the command line and what its root argument names
    pc,                 \* "start", "lstat", "callback", "done", "usage", "fatal"
    todo,               \* paths filepath.Walk still has to visit, in order
    info,               \* what Walk's lstat of Head(todo) returned
    nofErrors,
    nofBrokenLinks,
    nofLinksRemoved,
    nofLinksInspected,
    visited,            \* the paths the callback has been called with
    lstatFailed,        \* an lstat of an enumerated entry has failed
    external            \* entries removed by a concurrent process

vars == <<fs, fs0, readOnly, args, pc, todo, info, nofErrors, nofBrokenLinks,
          nofLinksRemoved, nofLinksInspected, visited, lstatFailed, external>>

counters == <<nofErrors, nofBrokenLinks, nofLinksRemoved, nofLinksInspected>>

TopEntries == {Absent, File} \cup {Link(t) : t \in Targets}

\* The trees of the model: ./a and ./b are files or links, ./d is a directory
\* or a link, and ./d/c exists only below a directory.
FileSystems ==
    {f \in [Slots -> TopEntries \cup {Dir}] :
        /\ f[<<"a">>].kind # "dir"
        /\ f[<<"b">>].kind # "dir"
        /\ f[<<"d">>].kind \in {"dir", "link"}
        /\ f[<<"d", "c">>].kind # "dir"
        /\ (f[<<"d">>].kind # "dir" => f[<<"d", "c">>] = Absent)}

ArgSets ==
    [nargs : 0..2, delBrokenLinks : BOOLEAN, delAllLinks : BOOLEAN,
     rootKind : {"dir", "file", "missing"}]

Init ==
    /\ fs \in FileSystems
    /\ fs0 = fs
    /\ readOnly \in SUBSET {Root, <<"d">>}
    /\ args \in ArgSets
    /\ pc = "start"
    /\ todo = <<>>
    /\ info = Absent
    /\ nofErrors = 0
    /\ nofBrokenLinks = 0
    /\ nofLinksRemoved = 0
    /\ nofLinksInspected = 0
    /\ visited = <<>>
    /\ lstatFailed = FALSE
    /\ external = {}


(* ------------------------------------------------------------------------ *)
(* main() up to the walk: flag parsing and validation of the root.          *)
(* ------------------------------------------------------------------------ *)

\* Mutant of BothFlags: the exclusion check is missing.
BothFlags_Unchecked(a) == FALSE

\* The flag exclusion check.
BothFlags(a) == a.delBrokenLinks /\ a.delAllLinks

\* os.Stat(rootDir) reports that the root does not exist.
RootNotExist(a) == a.rootKind = "missing"

\* os.Chdir(rootDir) succeeds only on a directory.
ChdirOk(a) == a.rootKind = "dir"

\* Not exactly one positional argument: usage, os.Exit(1).
UsageArgs ==
    /\ pc = "start"
    /\ args.nargs # 1
    /\ pc' = "usage"
    /\ UNCHANGED <<fs, fs0, readOnly, args, todo, info, counters, visited,
                   lstatFailed, external>>

\* Both deletion flags: usage, os.Exit(1).
UsageFlags ==
    /\ pc = "start"
    /\ args.nargs = 1
    /\ BothFlags(args)
    /\ pc' = "usage"
    /\ UNCHANGED <<fs, fs0, readOnly, args, todo, info, counters, visited,
                   lstatFailed, external>>

\* The root does not exist, or the program cannot change into it: log.Fatalf.
FatalRoot ==
    /\ pc = "start"
    /\ args.nargs = 1
    /\ ~BothFlags(args)
    /\ (RootNotExist(args) \/ ~ChdirOk(args))
    /\ pc' = "fatal"
    /\ UNCHANGED <<fs, fs0, readOnly, args, todo, info, counters, visited,
                   lstatFailed, external>>

\* Mutant of StartWalk: the walk starts without the root having been checked.
StartWalk_RootUnchecked ==
    /\ pc = "start"
    /\ args.nargs = 1
    /\ ~BothFlags(args)
    /\ todo' = <<Root>>
    /\ pc' = "lstat"
    /\ UNCHANGED <<fs, fs0, readOnly, args, info, counters, visited, lstatFailed,
                   external>>

\* The counters are set to 0 and filepath.Walk(".") is called.
StartWalk ==
    /\ pc = "start"
    /\ args.nargs = 1
    /\ ~BothFlags(args)
    /\ ~RootNotExist(args)
    /\ ChdirOk(args)
    /\ nofErrors' = 0
    /\ nofBrokenLinks' = 0
    /\ nofLinksRemoved' = 0
    /\ nofLinksInspected' = 0
    /\ todo' = <<Root>>
    /\ pc' = "lstat"
    /\ UNCHANGED <<fs, fs0, readOnly, args, info, visited, lstatFailed, external>>

(* ------------------------------------------------------------------------ *)
(* filepath.Walk and its callback.                                          *)
(* ------------------------------------------------------------------------ *)

\* Mutant of WalkInfo: the walk uses stat, which follows a symbolic link.
WalkInfo_Stat(f, p) ==
    LET r == EvalSymlinks(f, p)
    IN  IF r.ok THEN EntryAt(f, r.path) ELSE Absent

\* The FileInfo filepath.Walk hands to the callback: the lstat of the path.
WalkInfo(f, p) == Lstat(f, p)

\* Walk's lstat of the next enumerated path (of the root at first).
WalkLstat ==
    /\ pc = "lstat"
    /\ todo # <<>>
    /\ info' = WalkInfo(fs, Head(todo))
    /\ lstatFailed' = (lstatFailed \/ info'.kind = "absent")
    /\ pc' = "callback"
    /\ UNCHANGED <<fs, fs0, readOnly, args, todo, counters, visited, external>>

NoChange(f) ==
    [fs |-> f, inspected |-> 0, removed |-> 0, broken |-> 0, errors |-> 0]

\* Mutant of SymlinkCase: a link is broken when the path it stores names
\* nothing, the target's own links not being followed.
SymlinkCase_FirstHop(f, p, a, ro) ==
    IF a.delAllLinks
    THEN [fs |-> Remove(f, p, ro), inspected |-> 1, removed |-> 1, broken |-> 0,
          errors |-> IF RemoveOk(f, p, ro) THEN 0 ELSE 1]
    ELSE IF Lstat(f, Parent(p) \o f[p].target).kind = "absent"
         THEN IF a.delBrokenLinks
              THEN [fs |-> Remove(f, p, ro), inspected |-> 1, removed |-> 1,
                    broken |-> 1,
                    errors |-> IF RemoveOk(f, p, ro) THEN 0 ELSE 1]
              ELSE [fs |-> f, inspected |-> 1, removed |-> 0, broken |-> 1,
                    errors |-> 0]
         ELSE [fs |-> f, inspected |-> 1, removed |-> 0, broken |-> 0,
               errors |-> 0]

\* Mutant of SymlinkCase: with delete-broken, the inverted test removes the
\* links that resolve.
SymlinkCase_RemoveResolved(f, p, a, ro) ==
    IF a.delAllLinks
    THEN [fs |-> Remove(f, p, ro), inspected |-> 1, removed |-> 1, broken |-> 0,
          errors |-> IF RemoveOk(f, p, ro) THEN 0 ELSE 1]
    ELSE IF ~EvalSymlinks(f, p).ok
         THEN [fs |-> f, inspected |-> 1, removed |-> 0, broken |-> 1,
               errors |-> 0]
         ELSE IF a.delBrokenLinks
              THEN [fs |-> Remove(f, p, ro), inspected |-> 1, removed |-> 1,
                    broken |-> 0,
                    errors |-> IF RemoveOk(f, p, ro) THEN 0 ELSE 1]
              ELSE [fs |-> f, inspected |-> 1, removed |-> 0, broken |-> 0,
                    errors |-> 0]

\* Mutant of SymlinkCase: delete-all is tested after the classification, so
\* only broken links are removed.
SymlinkCase_AllAfterCheck(f, p, a, ro) ==
    IF ~EvalSymlinks(f, p).ok
    THEN IF a.delBrokenLinks \/ a.delAllLinks
         THEN [fs |-> Remove(f, p, ro), inspected |-> 1, removed |-> 1,
               broken |-> 1,
               errors |-> IF RemoveOk(f, p, ro) THEN 0 ELSE 1]
         ELSE [fs |-> f, inspected |-> 1, removed |-> 0, broken |-> 1,
               errors |-> 0]
    ELSE [fs |-> f, inspected |-> 1, removed |-> 0, broken |-> 0, errors |-> 0]

\* Mutant of SymlinkCase: with delete-all, the link is removed before it is
\* counted as inspected.
SymlinkCase_AllNotInspected(f, p, a, ro) ==
    IF a.delAllLinks
    THEN [fs |-> Remove(f, p, ro), inspected |-> 0, removed |-> 1, broken |-> 0,
          errors |-> IF RemoveOk(f, p, ro) THEN 0 ELSE 1]
    ELSE IF ~EvalSymlinks(f, p).ok
         THEN IF a.delBrokenLinks
              THEN [fs |-> Remove(f, p, ro), inspected |-> 1, removed |-> 1,
                    broken |-> 1,
                    errors |-> IF RemoveOk(f, p, ro) THEN 0 ELSE 1]
              ELSE [fs |-> f, inspected |-> 1, removed |-> 0, broken |-> 1,
                    errors |-> 0]
         ELSE [fs |-> f, inspected |-> 1, removed |-> 0, broken |-> 0,
               errors |-> 0]

\* The callback on an entry that is a symbolic link: what happens to the tree
\* and by how much each counter grows.
SymlinkCase(f, p, a, ro) ==
    IF a.delAllLinks
    THEN [fs |-> Remove(f, p, ro), inspected |-> 1, removed |-> 1, broken |-> 0,
          errors |-> IF RemoveOk(f, p, ro) THEN 0 ELSE 1]
    ELSE IF ~EvalSymlinks(f, p).ok
         THEN IF a.delBrokenLinks
              THEN [fs |-> Remove(f, p, ro), inspected |-> 1, removed |-> 1,
                    broken |-> 1,
                    errors |-> IF RemoveOk(f, p, ro) THEN 0 ELSE 1]
              ELSE [fs |-> f, inspected |-> 1, removed |-> 0, broken |-> 1,
                    errors |-> 0]
         ELSE [fs |-> f, inspected |-> 1, removed |-> 0, broken |-> 0,
               errors |-> 0]

\* The callback on an entry that is not a directory, after its own os.Lstat
\* returned fi.
EntryCase(f, p, fi, a, ro) ==
    IF fi.kind = "link" THEN SymlinkCase(f, p, a, ro) ELSE NoChange(f)

\* Mutant of ErrAbortsWalk: the callback returns nil for a failed path.
ErrAbortsWalk_Skipped == FALSE

\* What the callback returns for a path whose lstat or whose directory listing
\* failed: the error, which ends the walk.
ErrAbortsWalk == TRUE

\* One call of the callback by Walk, with what Walk does around it: for a
\* directory its names are read first and queued afterwards.
WalkFn ==
    /\ pc = "callback"
    /\ todo # <<>>
    /\ LET p == Head(todo)
           names == readDirNames(fs, p)
           fi == Lstat(fs, p)
           out == EntryCase(fs, p, fi, args, readOnly)
       IN  /\ visited' = Append(visited, p)
           /\ IF info.kind = "absent" \/ (info.kind = "dir" /\ ~names.ok)
              THEN /\ IF ErrAbortsWalk
                      THEN pc' = "fatal" /\ todo' = todo
                      ELSE pc' = "lstat" /\ todo' = Tail(todo)
                   /\ UNCHANGED <<fs, counters, lstatFailed>>
              ELSE IF info.kind = "dir"
              THEN /\ todo' = [i \in 1..Len(names.names) |->
                                  Append(p, names.names[i])] \o Tail(todo)
                   /\ pc' = "lstat"
                   /\ UNCHANGED <<fs, counters, lstatFailed>>
              ELSE IF fi.kind = "absent"
              THEN /\ lstatFailed' = TRUE
                   /\ pc' = "fatal"
                   /\ UNCHANGED <<fs, counters, todo>>
              ELSE /\ fs' = out.fs
                   /\ nofLinksInspected' = nofLinksInspected + out.inspected
                   /\ nofLinksRemoved' = nofLinksRemoved + out.removed
                   /\ nofBrokenLinks' = nofBrokenLinks + out.broken
                   /\ nofErrors' = nofErrors + out.errors
                   /\ todo' = Tail(todo)
                   /\ pc' = "lstat"
                   /\ UNCHANGED lstatFailed
    /\ UNCHANGED <<fs0, readOnly, args, info, external>>

\* Walk returns nil: the four counters and the elapsed time are reported.
WalkReturn ==
    /\ pc = "lstat"
    /\ todo = <<>>
    /\ pc' = "done"
    /\ UNCHANGED <<fs, fs0, readOnly, args, todo, info, counters, visited,
                   lstatFailed, external>>

\* A concurrent process removes an entry (a file, a link or an empty
\* directory) while the walk runs.
ExternalRemove ==
    /\ pc \in {"lstat", "callback"}
    /\ Cardinality(external) < MaxExternal
    /\ \E p \in Slots :
          /\ fs[p].kind # "absent"
          /\ \A q \in Slots : Len(q) > 1 /\ Front(q) = p => fs[q].kind = "absent"
          /\ fs' = [fs EXCEPT ![p] = Absent]
          /\ external' = external \cup {p}
    /\ UNCHANGED <<fs0, readOnly, args, pc, todo, info, counters, visited,
                   lstatFailed>>

Next ==
    \/ UsageArgs
    \/ UsageFlags
    \/ FatalRoot
    \/ StartWalk
    \/ WalkLstat
    \/ WalkFn
    \/ WalkReturn

Spec == Init /\ [][Next]_vars

\* The walk of an existing root directory while another process removes
\* entries of the tree.
InitRace ==
    /\ Init
    /\ args.nargs = 1
    /\ ~BothFlags(args)
    /\ args.rootKind = "dir"
    /\ readOnly = {}

NextRace ==
    \/ StartWalk
    \/ WalkLstat
    \/ WalkFn
    \/ WalkReturn
    \/ ExternalRemove

SpecRace == InitRace /\ [][NextRace]_vars

\* The exit code of the process once it has ended.
ExitCode == IF pc = "done" THEN 0 ELSE 1

Terminated == pc \in {"done", "usage", "fatal"}

TypeOK ==
    /\ pc \in {"start", "lstat", "callback", "done", "usage", "fatal"}
    /\ nofErrors \in Nat /\ nofBrokenLinks \in Nat
    /\ nofLinksRemoved \in Nat /\ nofLinksInspected \in Nat
    /\ \A i \in 1..Len(todo) : todo[i] \in Slots \cup {Root}

(* ------------------------------------------------------------------------ *)
(* Properties.                                                              *)
(* ------------------------------------------------------------------------ *)

\* The symbolic links of the initial tree, and those that do not resolve.
Links0 == {p \in Slots : fs0[p].kind = "link"}
Broken0 == {p \in Links0 : ~EvalSymlinks(fs0, p).ok}
Entries0 == {Root} \cup {p \in Slots : fs0[p].kind # "absent"}
LinksNow == {p \in Slots : fs[p].kind = "link"}
Deleted == {p \in Slots : fs0[p].kind # "absent" /\ fs[p].kind = "absent"}
NoFlags == ~args.delBrokenLinks /\ ~args.delAllLinks
VisitedSet == {visited[i] : i \in 1..Len(visited)}
IndexOf(p) == CHOOSE i \in 1..Len(visited) : visited[i] = p

\* C1: a completed run with no deletion flag reports inspected = N (the links
\* of the tree), broken = B (those that do not resolve) and removed = 0.
C1_NoFlagCounts ==
    (pc = "done" /\ NoFlags) =>
        /\ nofLinksInspected = Cardinality(Links0)
        /\ nofBrokenLinks = Cardinality(Broken0)
        /\ nofLinksRemoved = 0

C1_Witness ==
    /\ pc = "done" /\ NoFlags
    /\ Cardinality(Links0) = 3
    /\ Cardinality(Broken0) = 1
    /\ nofLinksInspected = 3 /\ nofBrokenLinks = 1 /\ nofLinksRemoved = 0

\* C2: a completed run with --delete-broken removes exactly the links that
\* were broken in the initial tree (a broken link stays only where its removal
\* fails), and every link that resolved is still there, unchanged and
\* resolving to the same place.
C2_DeleteBrokenExact ==
    (pc = "done" /\ args.delBrokenLinks) =>
        \A p \in Links0 :
            /\ (p \in Broken0 /\ Parent(p) \notin readOnly) => fs[p] = Absent
            /\ (p \in Broken0 /\ Parent(p) \in readOnly) => fs[p] = fs0[p]
            /\ p \notin Broken0 =>
                  /\ fs[p] = fs0[p]
                  /\ EvalSymlinks(fs, p) = EvalSymlinks(fs0, p)

\* A broken link q is removed, then a link p that points to q is removed, and a
\* link that resolves stays.
C2_Witness ==
    /\ pc = "done" /\ args.delBrokenLinks
    /\ \E p, q \in Broken0 :
          /\ p # q
          /\ Locate(fs0, Parent(p) \o fs0[p].target) = [ok |-> TRUE, path |-> q]
          /\ IndexOf(q) < IndexOf(p)
          /\ fs[p] = Absent /\ fs[q] = Absent
    /\ \E r \in Links0 \ Broken0 : fs[r] = fs0[r]
    /\ nofLinksRemoved = 2

\* C3: a completed run with --delete-all in which no removal fails reports
\* inspected = N and removed = N, and no symbolic link is left in the tree.
C3_DeleteAll ==
    (pc = "done" /\ args.delAllLinks /\ \A p \in Links0 : Parent(p) \notin readOnly) =>
        /\ nofLinksInspected = Cardinality(Links0)
        /\ nofLinksRemoved = Cardinality(Links0)
        /\ nofErrors = 0
        /\ LinksNow = {}

C3_Witness ==
    /\ pc = "done" /\ args.delAllLinks
    /\ Cardinality(Links0) = 3
    /\ Links0 \ Broken0 # {}
    /\ Broken0 # {}
    /\ nofLinksRemoved = 3
    /\ LinksNow = {}

\* C4: with both deletion flags the program ends with a nonzero exit code
\* before the walk: no entry is visited, no counter changes and the tree is
\* as it was.
C4_BothFlagsRejected ==
    (args.delBrokenLinks /\ args.delAllLinks) =>
        /\ pc \in {"start", "usage"}
        /\ (Terminated => ExitCode = 1)
        /\ visited = <<>> /\ todo = <<>>
        /\ counters = <<0, 0, 0, 0>>
        /\ fs = fs0

C4_Witness ==
    /\ args.delBrokenLinks /\ args.delAllLinks
    /\ args.nargs = 1 /\ args.rootKind = "dir"
    /\ Broken0 # {}
    /\ pc = "usage"

\* C5: when the root path does not exist the program ends with a nonzero exit
\* code without starting the walk and without changing the tree, whichever
\* deletion flag is set.
C5_MissingRootRejected ==
    args.rootKind = "missing" =>
        /\ pc \in {"start", "usage", "fatal"}
        /\ (Terminated => ExitCode = 1)
        /\ visited = <<>> /\ todo = <<>>
        /\ fs = fs0

C5_Witness ==
    /\ args.rootKind = "missing"
    /\ args.nargs = 1 /\ args.delAllLinks /\ ~args.delBrokenLinks
    /\ Links0 # {}
    /\ pc = "fatal"

\* C6: at the end of the run removed equals the number of links deleted from
\* the tree (removed grows only when a removal succeeds, errors only when it
\* fails).
C6_RemovedCountsDeletions ==
    pc = "done" => nofLinksRemoved = Cardinality(Deleted)

\* C7: in every state of the walk each link visited so far is counted exactly
\* once in inspected, removed <= inspected and broken <= inspected; and no
\* counter ever decreases.
C7_StateInv ==
    /\ nofLinksInspected =
          Cardinality({i \in 1..Len(visited) : EntryAt(fs0, visited[i]).kind = "link"})
    /\ nofLinksInspected =
          Cardinality({p \in VisitedSet : EntryAt(fs0, p).kind = "link"})
    /\ nofLinksRemoved <= nofLinksInspected
    /\ nofBrokenLinks <= nofLinksInspected

C7_Monotone ==
    /\ nofLinksInspected' >= nofLinksInspected
    /\ nofLinksRemoved' >= nofLinksRemoved
    /\ nofBrokenLinks' >= nofBrokenLinks
    /\ nofErrors' >= nofErrors

C7_CounterInvariant == [](C7_StateInv) /\ [][C7_Monotone]_vars

\* Mid-walk under --delete-broken: two links inspected, one of them broken,
\* its removal attempted and failed.
C7_Witness ==
    /\ pc = "lstat" /\ todo # <<>>
    /\ args.delBrokenLinks
    /\ nofLinksInspected = 2
    /\ nofLinksRemoved = 1
    /\ nofBrokenLinks = 1
    /\ nofErrors = 1

\* C8: the walk changes the tree only by removing an entry that is a symbolic
\* link, and only under --delete-all or --delete-broken: every directory,
\* file and link target is as it was, and with no flag the whole tree is.
C8_OnlyLinksRemoved ==
    /\ \A p \in Slots :
          fs[p] # fs0[p] =>
              /\ fs0[p].kind = "link"
              /\ fs[p] = Absent
              /\ p \in VisitedSet
              /\ (args.delAllLinks \/ args.delBrokenLinks)
    /\ NoFlags => fs = fs0

\* A link to a file of the tree was removed and the file is still there.
C8_Witness ==
    /\ pc = "done"
    /\ \E p \in Links0 :
          /\ fs[p] = Absent
          /\ EvalSymlinks(fs0, p).ok
          /\ EvalSymlinks(fs0, p).path \in Slots
          /\ fs0[EvalSymlinks(fs0, p).path].kind = "file"
          /\ fs[EvalSymlinks(fs0, p).path] = fs0[EvalSymlinks(fs0, p).path]

\* C9 as stated: when the lstat of an enumerated entry fails because another
\* process removed it, the run does not abort.
C9_VanishedEntryIsSkipped ==
    lstatFailed => pc # "fatal"

\* C9, amended: a failed lstat of an enumerated entry ends the run: the walk
\* goes no further than the callback on that entry, the process ends with a
\* nonzero exit code, the remaining entries are not visited and no summary is
\* reported.
C9_VanishedEntryIsFatal ==
    lstatFailed =>
        /\ pc \in {"callback", "fatal"}
        /\ pc = "callback" => info.kind = "absent"
        /\ pc = "fatal" =>
              /\ ExitCode = 1
              /\ todo # <<>>
              /\ Head(todo) = visited[Len(visited)]
              /\ \A i \in 2..Len(todo) : todo[i] \notin VisitedSet

\* An entry vanished before the walk's lstat, the run is over and two
\* enumerated entries were never visited.
C9_Witness ==
    /\ lstatFailed
    /\ pc = "fatal"
    /\ info.kind = "absent"
    /\ external # {}
    /\ Len(todo) = 3

\* C10: the walk terminates and visits every entry of the tree exactly once;
\* a symbolic link (to a directory, to an ancestor, in a cycle) is one
\* inspected link and nothing is visited through it.
Measure ==
    IF Terminated THEN 0
    ELSE 2 * (Cardinality(Entries0) - Len(visited))
         + (CASE pc = "start" -> 3 [] pc = "lstat" -> 2 [] OTHER -> 1)

C10_StateInv ==
    /\ \A i, j \in 1..Len(visited) : visited[i] = visited[j] => i = j
    /\ VisitedSet \subseteq Entries0
    /\ \A i \in 1..Len(todo) : todo[i] \in Entries0 \ VisitedSet
    /\ \A p \in VisitedSet : \A q \in Links0 :
          ~(Len(p) > Len(q) /\ SubSeq(p, 1, Len(q)) = q)
    /\ pc = "done" =>
          /\ VisitedSet = Entries0
          /\ nofLinksInspected = Cardinality(Links0)
    /\ Measure >= 0
    /\ pc = "callback" => todo # <<>>

C10_WalkTerminates == [](C10_StateInv) /\ [][Measure' < Measure]_vars

\* a -> d is a link to a directory, d/c -> .. a link to an ancestor, b -> b a
\* cycle; the walk has ended with each of the five entries visited once.
C10_Witness ==
    /\ pc = "done"
    /\ fs0[<<"a">>] = Link(<<"d">>)
    /\ fs0[<<"b">>] = Link(<<"b">>)
    /\ fs0[<<"d">>] = Dir
    /\ fs0[<<"d", "c">>] = Link(<<"..">>)
    /\ visited = <<Root, <<"a">>, <<"b">>, <<"d">>, <<"d", "c">> >>
    /\ nofLinksInspected = 3

=============================================================================
